---------------------------- MODULE Spec2Model ----------------------------
(***************************************************************************)
(* Model of MQL5OptimizationAnalyzer (src/mql5_optimization_analyzer.py):  *)
(* one analysis session holding a loaded table, the filtered table, the    *)
(* per-variable statistics, the ranked list and the advanced metrics.      *)
(*                                                                         *)
(* A column name is spelled out character by character (Spelling), so that *)
(* lower() and the substring test `kw in col.lower()` are computed.        *)
(* A cell is [t, v]: t = "num" (a number v), "nan" (a null) or "str" (a    *)
(* non-numeric string).  A table is [cols, index, rows]: the column names  *)
(* in table order, the pandas index labels of the rows, and the rows, each *)
(* a sequence of cells aligned with cols.                                  *)
(***************************************************************************)
EXTENDS Integers, Sequences, FiniteSets, TLC

\* ------------------------------------------------------------- bounds
MaxRows == 3
MaxCols == 2

\* ------------------------------------------------------ str.lower, `in`
UpperAlpha == <<"A","B","C","D","E","F","G","H","I","J","K","L","M",
                "N","O","P","Q","R","S","T","U","V","W","X","Y","Z">>
LowerAlpha == <<"a","b","c","d","e","f","g","h","i","j","k","l","m",
                "n","o","p","q","r","s","t","u","v","w","x","y","z">>

LowerChar(c) ==
    IF \E i \in 1..Len(UpperAlpha) : UpperAlpha[i] = c
    THEN LowerAlpha[CHOOSE i \in 1..Len(UpperAlpha) : UpperAlpha[i] = c]
    ELSE c

\* col.lower()
Lower(s) == [i \in 1..Len(s) |-> LowerChar(s[i])]

\* sub in s
Contains(sub, s) ==
    \E k \in 0..(Len(s) - Len(sub)) :
        \A i \in 1..Len(sub) : s[k + i] = sub[i]

\* ------------------------------------------------------------- strings
\* The characters of every column name and keyword of the model: a name is
\* kept as a string in the state and spelled out where the code reads its
\* characters.
Spelling ==
       "Profit" :> <<"P","r","o","f","i","t">>
    @@ "profit" :> <<"p","r","o","f","i","t">>
    @@ "Gain" :> <<"G","a","i","n">>
    @@ "Resultat" :> <<"R","e","s","u","l","t","a","t">>
    @@ "Result" :> <<"R","e","s","u","l","t">>
    @@ "Drawdown" :> <<"D","r","a","w","d","o","w","n">>
    @@ "Perte" :> <<"P","e","r","t","e">>
    @@ "Loss" :> <<"L","o","s","s">>
    @@ "RSI_Period" :> <<"R","S","I","_","P","e","r","i","o","d">>
    @@ "Lot" :> <<"L","o","t">>
    @@ "gain" :> <<"g","a","i","n">>
    @@ "resultat" :> <<"r","e","s","u","l","t","a","t">>
    @@ "drawdown" :> <<"d","r","a","w","d","o","w","n">>
    @@ "dd" :> <<"d","d">>
    @@ "perte" :> <<"p","e","r","t","e">>
    @@ "trades" :> <<"t","r","a","d","e","s">>
    @@ "total" :> <<"t","o","t","a","l">>
    @@ "net" :> <<"n","e","t">>
    @@ "gross" :> <<"g","r","o","s","s">>
    @@ "balance" :> <<"b","a","l","a","n","c","e">>
    @@ "equity" :> <<"e","q","u","i","t","y">>
    @@ "result" :> <<"r","e","s","u","l","t">>
    @@ "loss" :> <<"l","o","s","s">>
    @@ "StopTime" :> <<"S","t","o","p","T","i","m","e">>
    @@ "Hour" :> <<"H","o","u","r">>
    @@ "Trend" :> <<"T","r","e","n","d">>
    @@ "Magic" :> <<"M","a","g","i","c">>
    @@ "Comment" :> <<"C","o","m","m","e","n","t">>
    @@ "Pass" :> <<"P","a","s","s">>
    @@ "rsi" :> <<"r","s","i">>
    @@ "ma" :> <<"m","a">>
    @@ "ema" :> <<"e","m","a">>
    @@ "sma" :> <<"s","m","a">>
    @@ "macd" :> <<"m","a","c","d">>
    @@ "bollinger" :> <<"b","o","l","l","i","n","g","e","r">>
    @@ "stoch" :> <<"s","t","o","c","h">>
    @@ "period" :> <<"p","e","r","i","o","d">>
    @@ "sl" :> <<"s","l">>
    @@ "tp" :> <<"t","p">>
    @@ "stop" :> <<"s","t","o","p">>
    @@ "take" :> <<"t","a","k","e">>
    @@ "risk" :> <<"r","i","s","k">>
    @@ "position" :> <<"p","o","s","i","t","i","o","n">>
    @@ "lot" :> <<"l","o","t">>
    @@ "hour" :> <<"h","o","u","r">>
    @@ "time" :> <<"t","i","m","e">>
    @@ "session" :> <<"s","e","s","s","i","o","n">>
    @@ "day" :> <<"d","a","y">>
    @@ "week" :> <<"w","e","e","k">>
    @@ "filter" :> <<"f","i","l","t","e","r">>
    @@ "confirm" :> <<"c","o","n","f","i","r","m">>
    @@ "trend" :> <<"t","r","e","n","d">>
    @@ "volume" :> <<"v","o","l","u","m","e">>
    @@ "pass" :> <<"p","a","s","s">>

Chars(name) == Spelling[name]

\* any(keyword in col.lower() for keyword in keywords)
AnyKeywordIn(keywords, col) ==
    \E j \in 1..Len(keywords) : Contains(Chars(keywords[j]), Lower(Chars(col)))

\* the keywords of the profit_cols comprehensions of the filter, of
\* analyze_variables and of find_best_optimizations
ProfitKeywords == <<"profit", "gain", "resultat">>
\* the keywords of the dd_cols comprehension of the filter
DdKeywords == <<"drawdown", "dd", "perte">>
\* result_keywords of analyze_variables
ResultKeywords == <<"profit", "gain", "drawdown", "dd", "trades",
                    "total", "net", "gross", "balance", "equity">>

\* --------------------------------------------------------------- cells
Num(n) == [t |-> "num", v |-> n]
NaN    == [t |-> "nan", v |-> 0]
Str(n) == [t |-> "str", v |-> n]

IsNum(c) == c.t = "num"
IsNull(c) == c.t = "nan"
IsStr(c) == c.t = "str"

\* ------------------------------------------------------------- options
None == << >>
Some(x) == <<x>>
IsNone(o) == o = << >>
Get(o) == o[1]

\* -------------------------------------------------------------- tables
RangeIndex(n) == [i \in 1..n |-> i - 1]

MkTable(cols, rows) ==
    [cols |-> cols, index |-> RangeIndex(Len(rows)), rows |-> rows]

NRows(T) == Len(T.rows)

\* position of column `name` in T (column names are unique in a table)
ColPos(T, name) == CHOOSE j \in 1..Len(T.cols) : T.cols[j] = name

\* T[name]: the Series of the cells of one column
Column(T, name) == [i \in 1..NRows(T) |-> T.rows[i][ColPos(T, name)]]

\* row[name] of the row at position i
CellOf(T, i, name) == T.rows[i][ColPos(T, name)]

SeqsUpTo(S, n) == UNION {[1..k -> S] : k \in 0..n}


\* ------------------------------------------------------ loaded tables
\* Tables of a profit and a drawdown column, and tables of a variable and a
\* profit column.
VarVals   == {Num(14), Num(21)}
ProfitVals == {Num(2), Num(3), NaN}
DdVals     == {Num(1), Num(-3)}

RankCols == <<"Profit", "Drawdown">>
\* (a row fails the filter for its profit or for its drawdown)
RankRowPool ==
    {r \in ProfitVals \X DdVals : r[1] = Num(3) \/ r[2] = Num(1)}
StatCols == <<"RSI_Period", "Profit">>
\* (a missing profit never passes the filter: the ranking tables carry it)
StatRowPool == {<<x, y>> : x \in VarVals, y \in ProfitVals \ {NaN}}

\* Tables of one profit column with gains and losses.
PnlVals == {Num(-3), Num(-1), Num(2)}
PnlCols == <<"Profit">>
PnlRowPool == {<<y>> : y \in PnlVals}

\* Tables of a profit and a drawdown column with a text cell in one of them.
TextRowPool == {<<Str(0), Num(1)>>, <<Num(3), Str(0)>>, <<Num(3), Num(1)>>}
TextTables == {MkTable(RankCols, rows) : rows \in SeqsUpTo(TextRowPool, MaxRows)}

DataTables ==
    {MkTable(RankCols, rows) : rows \in SeqsUpTo(RankRowPool, MaxRows)}
    \cup {MkTable(StatCols, rows) : rows \in SeqsUpTo(StatRowPool, MaxRows)}
    \cup {MkTable(PnlCols, rows) : rows \in SeqsUpTo(PnlRowPool, MaxRows)}

\* Tables of a variable and a profit column in which the variable is left
\* blank in the rows of the greater profit.
GapRowPool == {<<NaN, Num(3)>>, <<Num(14), Num(2)>>}
GapTables == {MkTable(StatCols, rows) : rows \in SeqsUpTo(GapRowPool, MaxRows)}

\* Tables with every choice of column names and two sample rows.
ColumnPool == {"Profit", "profit", "Gain", "Resultat", "Result",
               "Drawdown", "Perte", "Loss", "RSI_Period"}

\* names of optimisation inputs, for the categories of categorize_variables
CategoryPool == {"Lot", "StopTime", "Hour", "Trend", "Magic",
                 "Comment", "Pass"}

\* every column name a loaded table may carry
Names == ColumnPool \cup CategoryPool

IsInjective(s) == \A i, j \in 1..Len(s) : s[i] = s[j] => i = j

ColumnLists ==
    {cols \in SeqsUpTo(ColumnPool, MaxCols) : Len(cols) >= 1 /\ IsInjective(cols)}

\* the cells of one row differ from column to column
SampleRows(cols) ==
    << [j \in 1..Len(cols) |-> Num(1 + j)], [j \in 1..Len(cols) |-> Num(4 - j)] >>

ColTables == {MkTable(cols, SampleRows(cols)) : cols \in ColumnLists}

\* Tables of a profit column followed by optimisation inputs.
CategoryLists ==
    {cols \in SeqsUpTo(CategoryPool, MaxCols) : IsInjective(cols)}

CatTables ==
    {MkTable(<<"Profit">> \o cols, SampleRows(<<"Profit">> \o cols)) :
         cols \in CategoryLists}

Tables == DataTables \cup TextTables \cup GapTables \cup ColTables \cup CatTables

\* Tables of a variable and a profit column as an optimiser writes them for
\* a sweep of one input: the rows of one value of the variable are adjacent
\* and the values 1, 2, ... come in ascending or in descending order.
MaxGroupRows == 6
GroupProfitVals == {2, 4}

\* the value sequences of n rows: the first is 1 and each one is its
\* predecessor or one more (1 plus the number of steps taken before it)
Sweeps(n) ==
    {[i \in 1..n |-> 1 + Cardinality({j \in 1..(i - 1) : st[j] = 1})] :
        st \in [1..(n - 1) -> {0, 1}]}

Reversed(s) == [i \in 1..Len(s) |-> s[Len(s) + 1 - i]]

SweepRows ==
    {[i \in 1..Len(vp[1]) |-> <<Num(vp[1][i]), Num(vp[2][i])>>] :
        vp \in UNION {Sweeps(n) \X [1..n -> GroupProfitVals] :
                          n \in 0..MaxGroupRows}}

GroupTables ==
    {MkTable(StatCols, rows) : rows \in SweepRows}
    \cup {MkTable(StatCols, Reversed(rows)) : rows \in SweepRows}

\* The files one session loads one after the other: two reports of a swept
\* input, a file without a profit column and a file with text in its profit
\* column.
ReloadTables ==
    {MkTable(StatCols, << <<Num(14), Num(2)>>, <<Num(21), Num(3)>> >>),
     MkTable(StatCols, << <<Num(21), Num(3)>> >>),
     MkTable(<<"RSI_Period", "Drawdown">>, << <<Num(14), Num(1)>> >>),
     MkTable(StatCols, << <<Num(14), Str(0)>> >>)}

\* thresholds and sizes the caller passes
MinProfits   == {-3, 2, 3}
MaxDrawdowns == {2}
TopNs        == {1, 2, 3}

\* ----------------------------------------------------------------- state
VARIABLES
    data,                \* self.data: None or Some(table)
    filtered_data,       \* self.filtered_data: None or Some(table)
    variable_stats,      \* self.variable_stats: dict column name -> stats
    best_optimizations,  \* self.best_optimizations: list of dicts
    advanced_metrics,    \* self.advanced_metrics, an attribute set only by
                         \* calculate_advanced_metrics
    printed,             \* what the filter printed last: the profit column
                         \* and the drawdown column it uses, and the number
                         \* of rows it kept
    returned,            \* what the last call returned: None, or Some(value)
    last                 \* the last call, its arguments and how it ended

vars == <<data, filtered_data, variable_stats, best_optimizations,
          advanced_metrics, printed, returned, last>>

EmptyDict == << >>
NoAttr == [set |-> FALSE, val |-> EmptyDict]
Attr(x) == [set |-> TRUE, val |-> x]

NothingPrinted == [profit_col |-> None, dd_col |-> None, count |-> None]

Call(op, res, a, b) == [op |-> op, res |-> res, a |-> a, b |-> b]

\* MQL5OptimizationAnalyzer.__init__
Init ==
    /\ data = None
    /\ filtered_data = None
    /\ variable_stats = EmptyDict
    /\ best_optimizations = << >>
    /\ advanced_metrics = NoAttr
    /\ printed = NothingPrinted
    /\ returned = None
    /\ last = Call("init", "ok", 0, 0)

\* analyzer = MQL5OptimizationAnalyzer(); analyzer.data = df: the callers
\* assign the table once, right after constructing the session
NewSession ==
    /\ last.op = "init"
    /\ \E T \in Tables : data' = Some(T)
    /\ filtered_data' = None
    /\ variable_stats' = EmptyDict
    /\ best_optimizations' = << >>
    /\ advanced_metrics' = NoAttr
    /\ printed' = NothingPrinted
    /\ returned' = None
    /\ last' = Call("load", "ok", 0, 0)

\* ------------------------------------------- filter_profitable_optimizations
\* The keyword tests of every column name of the pool, computed once.
ProfitNameTable == [c \in Names |-> AnyKeywordIn(ProfitKeywords, c)]
DdNameTable == [c \in Names |-> AnyKeywordIn(DdKeywords, c)]
ResultNameTable == [c \in Names |-> AnyKeywordIn(ResultKeywords, c)]

\* 'profit' in col.lower() or 'gain' in col.lower() or 'resultat' in col.lower()
IsProfitName(col) == ProfitNameTable[col]
\* 'drawdown' in col.lower() or 'dd' in col.lower() or 'perte' in col.lower()
IsDdName(col) == DdNameTable[col]
\* not any(keyword in col.lower() for keyword in result_keywords)
IsVariableName(col) == ~ResultNameTable[col]

\* [col for col in self.data.columns if 'profit' in col.lower() or ...]
ProfitColsFilter(cols) == SelectSeq(cols, IsProfitName)
\* [col for col in self.data.columns if 'drawdown' in col.lower() or ...]
DdColsFilter(cols) == SelectSeq(cols, IsDdName)

\* (variant: the last match instead of the first)
ProfitColFilter_Last(cols) ==
    ProfitColsFilter(cols)[Len(ProfitColsFilter(cols))]
\* profit_cols[0]
ProfitColFilter(cols) == ProfitColsFilter(cols)[1]
\* dd_cols[0] if dd_cols else None
DdColFilter(cols) ==
    IF DdColsFilter(cols) # << >> THEN Some(DdColsFilter(cols)[1]) ELSE None

\* a comparison or abs() of a Series holding a non-numeric string raises
\* TypeError
HasStr(series) == \E i \in 1..Len(series) : IsStr(series[i])

Abs(n) == IF n < 0 THEN -n ELSE n

\* series >= x: False on a null
GeMask(series, x) == [i \in 1..Len(series) |-> IsNum(series[i]) /\ series[i].v >= x]
\* (variant: the drawdown compared without abs())
AbsLeMask_NoAbs(series, x) ==
    [i \in 1..Len(series) |-> IsNum(series[i]) /\ series[i].v <= x]
\* abs(series) <= x: False on a null
AbsLeMask(series, x) ==
    [i \in 1..Len(series) |-> IsNum(series[i]) /\ Abs(series[i].v) <= x]
\* mask & other
AndMask(m1, m2) == [i \in 1..Len(m1) |-> m1[i] /\ m2[i]]

\* the positions a boolean mask selects, ascending
RECURSIVE MaskPositions(_, _)
MaskPositions(mask, i) ==
    IF i > Len(mask) THEN << >>
    ELSE IF mask[i] THEN <<i>> \o MaskPositions(mask, i + 1)
    ELSE MaskPositions(mask, i + 1)

\* (variant: the selected positions read as index labels)
Take_ByLabel(T, pos) ==
    LET hit == MaskPositions(
                   [i \in 1..NRows(T) |->
                       \E k \in 1..Len(pos) : T.index[i] = pos[k] - 1], 1)
    IN  [cols  |-> T.cols,
         index |-> [k \in 1..Len(hit) |-> T.index[hit[k]]],
         rows  |-> [k \in 1..Len(hit) |-> T.rows[hit[k]]]]
\* T[mask].copy(): rows and index labels at the selected positions
Take(T, pos) ==
    [cols  |-> T.cols,
     index |-> [k \in 1..Len(pos) |-> T.index[pos[k]]],
     rows  |-> [k \in 1..Len(pos) |-> T.rows[pos[k]]]]

\* mask = self.data[profit_col] >= min_profit; if dd_col: mask = mask & ...
FilterMask(T, min_profit, max_drawdown) ==
    LET m == GeMask(Column(T, ProfitColFilter(T.cols)), min_profit)
        dd == DdColFilter(T.cols)
    IN  IF IsNone(dd) THEN m
        ELSE AndMask(m, AbsLeMask(Column(T, Get(dd)), max_drawdown))

FilterRaises(T) ==
    \/ HasStr(Column(T, ProfitColFilter(T.cols)))
    \/ /\ ~IsNone(DdColFilter(T.cols))
       /\ HasStr(Column(T, Get(DdColFilter(T.cols))))

\* self.data[mask].copy()
FilterTable(T, min_profit, max_drawdown) ==
    Take(T, MaskPositions(FilterMask(T, min_profit, max_drawdown), 1))

\* (variant: an empty result stored as None)
StoredTable_NoneWhenEmpty(T) == IF NRows(T) = 0 THEN None ELSE Some(T)
\* self.filtered_data = ...: the value the attribute is given
StoredTable(T) == Some(T)

\* (variant: the drawdown column of self.data overwritten with its absolute
\* values, self.data[dd_col] = abs(self.data[dd_col]))
FilterProfitableOptimizations_AbsInPlace(min_profit, max_drawdown) ==
    /\ UNCHANGED <<variable_stats, best_optimizations, advanced_metrics>>
    /\ returned' = None
    /\ IF IsNone(data)
       THEN /\ last' = Call("filter", "no_data", min_profit, max_drawdown)
            /\ UNCHANGED <<data, filtered_data, printed>>
       ELSE IF ProfitColsFilter(Get(data).cols) = << >>
       THEN /\ last' = Call("filter", "no_profit_col", min_profit, max_drawdown)
            /\ UNCHANGED <<data, filtered_data, printed>>
       ELSE LET T == Get(data)
                profit_col == ProfitColFilter(T.cols)
                dd_col == DdColFilter(T.cols)
                U == IF IsNone(dd_col) THEN T
                     ELSE [T EXCEPT !.rows =
                              [i \in 1..NRows(T) |->
                                  [j \in 1..Len(T.cols) |->
                                      IF j = ColPos(T, Get(dd_col))
                                         /\ IsNum(T.rows[i][j])
                                      THEN Num(Abs(T.rows[i][j].v))
                                      ELSE T.rows[i][j]]]]
            IN  IF FilterRaises(T)
                THEN /\ printed' = [printed EXCEPT !.profit_col = Some(profit_col),
                                                   !.dd_col = dd_col]
                     /\ last' = Call("filter", "raised", min_profit, max_drawdown)
                     /\ UNCHANGED <<data, filtered_data>>
                ELSE /\ data' = Some(U)
                     /\ filtered_data' =
                           StoredTable(FilterTable(U, min_profit, max_drawdown))
                     /\ printed' =
                           [profit_col |-> Some(profit_col),
                            dd_col |-> dd_col,
                            count |-> Some(NRows(FilterTable(U, min_profit,
                                                             max_drawdown)))]
                     /\ last' = Call("filter", "ok", min_profit, max_drawdown)

FilterProfitableOptimizations(min_profit, max_drawdown) ==
    /\ UNCHANGED <<data, variable_stats, best_optimizations, advanced_metrics>>
    /\ returned' = None
    /\ IF IsNone(data)
       THEN /\ last' = Call("filter", "no_data", min_profit, max_drawdown)
            /\ UNCHANGED <<filtered_data, printed>>
       ELSE IF ProfitColsFilter(Get(data).cols) = << >>
       THEN /\ last' = Call("filter", "no_profit_col", min_profit, max_drawdown)
            /\ UNCHANGED <<filtered_data, printed>>
       ELSE LET profit_col == ProfitColFilter(Get(data).cols)
                dd_col == DdColFilter(Get(data).cols)
            IN  IF FilterRaises(Get(data))
                THEN /\ printed' = [printed EXCEPT !.profit_col = Some(profit_col),
                                                   !.dd_col = dd_col]
                     /\ last' = Call("filter", "raised", min_profit, max_drawdown)
                     /\ UNCHANGED filtered_data
                ELSE /\ filtered_data' =
                           StoredTable(FilterTable(Get(data), min_profit,
                                                   max_drawdown))
                     /\ printed' =
                           [profit_col |-> Some(profit_col),
                            dd_col |-> dd_col,
                            count |-> Some(NRows(FilterTable(Get(data), min_profit,
                                                             max_drawdown)))]
                     /\ last' = Call("filter", "ok", min_profit, max_drawdown)

\* ------------------------------------------------------------- numbers
\* A mean or a ratio is an exact fraction <<numerator, denominator>> in
\* lowest terms with a positive denominator; <<0, 0>> is the float nan.
RECURSIVE Gcd(_, _)
Gcd(a, b) == IF b = 0 THEN a ELSE Gcd(b, a % b)

Frac(n, d) ==
    LET g == Gcd(Abs(n), d) IN <<n \div g, d \div g>>
Int2F(n) == <<n, 1>>
NaNF == <<0, 0>>
IsNaNF(x) == x[2] = 0
FracLt(x, y) == x[1] * y[2] < y[1] * x[2]
FracDiv(x, y) ==
    IF y[1] > 0 THEN Frac(x[1] * y[2], x[2] * y[1])
    ELSE Frac(-(x[1] * y[2]), x[2] * (-y[1]))

RECURSIVE SumSeq(_)
SumSeq(s) == IF s = << >> THEN 0 ELSE Head(s) + SumSeq(Tail(s))

\* the sum of two quotients, and of a sequence of quotients
FracAdd(x, y) == Frac(x[1] * y[2] + y[1] * x[2], x[2] * y[2])
RECURSIVE FracSum(_)
FracSum(s) == IF s = << >> THEN Int2F(0) ELSE FracAdd(Head(s), FracSum(Tail(s)))

\* the values of a sequence, as a set
Elems(xs) == {xs[k] : k \in 1..Len(xs)}

SetMax(S) == CHOOSE x \in S : \A y \in S : y <= x
SetMin(S) == CHOOSE x \in S : \A y \in S : x <= y
MinOf(a, b) == IF a <= b THEN a ELSE b

\* the elements of a set of integers in ascending order
RECURSIVE SortedSeq(_)
SortedSeq(S) ==
    IF S = {} THEN << >> ELSE <<SetMin(S)>> \o SortedSeq(S \ {SetMin(S)})

\* ------------------------------------------------------------ nlargest
\* Series.nlargest(n, keep='first'): the positions of the n greatest keys,
\* greatest first, equal keys in their original order; null keys (nan) are
\* dropped from the ranking and appended after the others.
\* (variant: among equal keys the last occurrence first, keep='last')
RECURSIVE DescOrder_KeepLast(_, _)
DescOrder_KeepLast(keys, remaining) ==
    IF remaining = {} THEN << >>
    ELSE LET i == CHOOSE i \in remaining :
                      \A j \in remaining :
                          /\ ~FracLt(keys[i], keys[j])
                          /\ (keys[j] = keys[i] => j <= i)
         IN  <<i>> \o DescOrder_KeepLast(keys, remaining \ {i})

RECURSIVE DescOrder(_, _)
DescOrder(keys, remaining) ==
    IF remaining = {} THEN << >>
    ELSE LET i == CHOOSE i \in remaining :
                      \A j \in remaining :
                          /\ ~FracLt(keys[i], keys[j])
                          /\ (keys[j] = keys[i] => i <= j)
         IN  <<i>> \o DescOrder(keys, remaining \ {i})

\* (variant: when n covers the whole Series, a sort that is not stable)
NLargest_UnstableWhenAll(keys, n) ==
    LET valid == {i \in 1..Len(keys) : ~IsNaNF(keys[i])}
        nulls == {i \in 1..Len(keys) : IsNaNF(keys[i])}
        order == (IF n >= Len(keys) THEN DescOrder_KeepLast(keys, valid)
                  ELSE DescOrder(keys, valid)) \o SortedSeq(nulls)
    IN  SubSeq(order, 1, MinOf(n, Len(order)))

NLargest(keys, n) ==
    LET valid == {i \in 1..Len(keys) : ~IsNaNF(keys[i])}
        nulls == {i \in 1..Len(keys) : IsNaNF(keys[i])}
        order == DescOrder(keys, valid) \o SortedSeq(nulls)
    IN  SubSeq(order, 1, MinOf(n, Len(order)))

\* ---------------------------------------------------------------- dicts
\* d[k] = v
DictSet(d, k, v) ==
    [x \in (DOMAIN d) \cup {k} |-> IF x = k THEN v ELSE d[x]]

\* ----------------------------------------------------- analyze_variables
\* variable_cols: the columns matching no result keyword, in table order
VariableCols(cols) == SelectSeq(cols, IsVariableName)
\* profit_cols of analyze_variables
ProfitColsAnalyze(cols) == SelectSeq(cols, IsProfitName)

\* self.filtered_data[[var_col, profit_col]].dropna(): the positions of
\* the rows whose two cells are both non-null
CleanPositions(T, var_col, profit_col) ==
    LET v == Column(T, var_col)
        q == Column(T, profit_col)
    IN  MaskPositions([i \in 1..NRows(T) |-> ~IsNull(v[i]) /\ ~IsNull(q[i])], 1)

\* clean_data.groupby(var_col)[profit_col] over the cleaned rows `pos`: one
\* group per value of the variable, in ascending order of the value, each
\* with the profits of its rows in row order (numeric variable values)
Groups(T, var_col, profit_col, pos) ==
    LET v == Column(T, var_col)
        q == Column(T, profit_col)
        keys == SortedSeq({v[pos[k]].v : k \in 1..Len(pos)})
        members(g) == SelectSeq(pos, LAMBDA i : v[i].v = keys[g])
    IN  [g \in 1..Len(keys) |->
            [key |-> keys[g],
             profits |-> [k \in 1..Len(members(g)) |-> q[members(g)[k]].v]]]

\* grouped.mean()
GroupMeans(groups) ==
    [g \in 1..Len(groups) |->
        Frac(SumSeq(groups[g].profits), Len(groups[g].profits))]

\* (variant: the greatest of the group minima, grouped.min().max())
ProfitMin_MaxOfMins(groups) ==
    SetMax({SetMin(Elems(groups[g].profits)) : g \in 1..Len(groups)})
\* grouped.min().min()
ProfitMin(groups) ==
    SetMin({SetMin(Elems(groups[g].profits)) : g \in 1..Len(groups)})
\* grouped.max().max()
ProfitMax(groups) ==
    SetMax({SetMax(Elems(groups[g].profits)) : g \in 1..Len(groups)})

\* clean_data[profit_col].mean()
ProfitMoyen(profits) == Frac(SumSeq(profits), Len(profits))

\* (variant: 'occurrences' counts the cleaned rows of every group)
TopEntries_CountAllRows(groups, top) ==
    [k \in 1..Len(top) |->
        [valeur |-> Num(groups[top[k]].key),
         profit_moyen |-> GroupMeans(groups)[top[k]],
         occurrences |-> SumSeq([g \in 1..Len(groups) |-> Len(groups[g].profits)]),
         profit_total |-> SumSeq(groups[top[k]].profits)]]
\* the entries appended to top_valeurs, one per item of top_values
TopEntries(groups, top) ==
    [k \in 1..Len(top) |->
        [valeur |-> Num(groups[top[k]].key),
         profit_moyen |-> GroupMeans(groups)[top[k]],
         occurrences |-> Len(groups[top[k]].profits),
         profit_total |-> SumSeq(groups[top[k]].profits)]]

\* (variant: the first five groups, without ranking them)
TopValues_FirstFive(groups) ==
    TopEntries(groups, [k \in 1..MinOf(5, Len(groups)) |-> k])
\* top_values = grouped.mean().nlargest(5) and the loop over its items
TopValues(groups) == TopEntries(groups, NLargest(GroupMeans(groups), 5))

\* (variant: profit_moyen as the mean of the group means)
ColumnStats_MeanOfGroupMeans(T, var_col, profit_col, pos) ==
    LET groups == Groups(T, var_col, profit_col, pos)
        total == FracSum(GroupMeans(groups))
    IN  [occurrences |-> Len(groups),
         valeurs_uniques |-> Len(groups),
         profit_min |-> ProfitMin(groups),
         profit_max |-> ProfitMax(groups),
         profit_moyen |-> Frac(total[1], total[2] * Len(groups)),
         top_valeurs |-> TopValues(groups)]

\* the statistics of one variable column over its cleaned rows `pos`
ColumnStats(T, var_col, profit_col, pos) ==
    LET groups == Groups(T, var_col, profit_col, pos)
        q == Column(T, profit_col)
    IN  [occurrences |-> Len(groups),
         valeurs_uniques |-> Len(groups),
         profit_min |-> ProfitMin(groups),
         profit_max |-> ProfitMax(groups),
         profit_moyen |-> ProfitMoyen([k \in 1..Len(pos) |-> q[pos[k]].v]),
         top_valeurs |-> TopValues(groups)]

\* one pass of the loop body over var_col: the entry is written only when
\* the cleaned rows are not empty; grouping a column by itself (var_col is
\* the profit column) raises ValueError, which the except clause swallows
AnalyzeColumn(stats, T, var_col, profit_col) ==
    LET pos == CleanPositions(T, var_col, profit_col)
    IN  IF pos = << >> THEN stats
        ELSE IF var_col = profit_col THEN stats
        ELSE DictSet(stats, var_col, ColumnStats(T, var_col, profit_col, pos))

\* (variant: one try around the whole loop, the first failure ends it)
RECURSIVE AnalyzeLoop_TryAroundLoop(_, _, _, _)
AnalyzeLoop_TryAroundLoop(stats, T, variable_cols, profit_col) ==
    IF variable_cols = << >> THEN stats
    ELSE IF /\ Head(variable_cols) = profit_col
            /\ CleanPositions(T, Head(variable_cols), profit_col) # << >>
         THEN stats
         ELSE AnalyzeLoop_TryAroundLoop(
                  AnalyzeColumn(stats, T, Head(variable_cols), profit_col),
                  T, Tail(variable_cols), profit_col)

\* for var_col in variable_cols: ...
RECURSIVE AnalyzeLoop(_, _, _, _)
AnalyzeLoop(stats, T, variable_cols, profit_col) ==
    IF variable_cols = << >> THEN stats
    ELSE AnalyzeLoop(AnalyzeColumn(stats, T, Head(variable_cols), profit_col),
                     T, Tail(variable_cols), profit_col)

AnalyzeVariables ==
    /\ UNCHANGED <<data, filtered_data, best_optimizations, advanced_metrics,
                   printed>>
    /\ returned' = None
    /\ IF IsNone(filtered_data) \/ NRows(Get(filtered_data)) = 0
       THEN /\ last' = Call("analyze", "no_filtered", 0, 0)
            /\ UNCHANGED variable_stats
       ELSE IF ProfitColsAnalyze(Get(filtered_data).cols) = << >>
       THEN /\ last' = Call("analyze", "no_profit_col", 0, 0)
            /\ UNCHANGED variable_stats
       ELSE /\ variable_stats' =
                  AnalyzeLoop(variable_stats, Get(filtered_data),
                              VariableCols(Get(filtered_data).cols),
                              ProfitColsAnalyze(Get(filtered_data).cols)[1])
            /\ last' = Call("analyze", "ok", 0, 0)

\* ------------------------------------------------ find_best_optimizations
\* profit_cols of find_best_optimizations
ProfitColsBest(cols) == SelectSeq(cols, IsProfitName)

\* the ranking key of a profit cell
CellKey(c) == IF IsNum(c) THEN Int2F(c.v) ELSE NaNF

\* self.filtered_data.nlargest(top_n, profit_col): the row positions
BestPositions(T, top_n, profit_col) ==
    LET q == Column(T, profit_col)
    IN  NLargest([i \in 1..NRows(T) |-> CellKey(q[i])], top_n)

\* for col in self.filtered_data.columns: if col != profit_col: opt[col] = row[col]
RECURSIVE CopyColumns(_, _, _, _, _)
CopyColumns(opt, T, i, cols, profit_col) ==
    IF cols = << >> THEN opt
    ELSE CopyColumns(IF Head(cols) # profit_col
                     THEN DictSet(opt, Head(cols), T.rows[i][ColPos(T, Head(cols))])
                     ELSE opt,
                     T, i, Tail(cols), profit_col)

\* opt = {'profit': row[profit_col]} and the loop over the columns
BestRecord(T, i, profit_col) ==
    CopyColumns(DictSet(EmptyDict, "profit", T.rows[i][ColPos(T, profit_col)]),
                T, i, T.cols, profit_col)

BestList(T, top_n, profit_col) ==
    LET pos == BestPositions(T, top_n, profit_col)
    IN  [k \in 1..Len(pos) |-> BestRecord(T, pos[k], profit_col)]

\* (variant: the list is not emptied before the records are appended)
FindBestOptimizations_NoReset(top_n) ==
    /\ UNCHANGED <<data, filtered_data, variable_stats, advanced_metrics,
                   printed>>
    /\ returned' = None
    /\ IF IsNone(filtered_data)
       THEN /\ last' = Call("find_best", "no_filtered", top_n, 0)
            /\ UNCHANGED best_optimizations
       ELSE /\ best_optimizations' =
                  best_optimizations \o
                  BestList(Get(filtered_data), top_n,
                           ProfitColsBest(Get(filtered_data).cols)[1])
            /\ last' = Call("find_best", "ok", top_n, 0)

FindBestOptimizations(top_n) ==
    /\ UNCHANGED <<data, filtered_data, variable_stats, advanced_metrics,
                   printed>>
    /\ returned' = None
    /\ IF IsNone(filtered_data)
       THEN /\ last' = Call("find_best", "no_filtered", top_n, 0)
            /\ UNCHANGED best_optimizations
       ELSE IF ProfitColsBest(Get(filtered_data).cols) = << >>
       THEN /\ last' = Call("find_best", "no_profit_col", top_n, 0)
            /\ UNCHANGED best_optimizations
       ELSE IF HasStr(Column(Get(filtered_data),
                             ProfitColsBest(Get(filtered_data).cols)[1]))
       THEN /\ last' = Call("find_best", "raised", top_n, 0)
            /\ UNCHANGED best_optimizations
       ELSE /\ best_optimizations' =
                  BestList(Get(filtered_data), top_n,
                           ProfitColsBest(Get(filtered_data).cols)[1])
            /\ last' = Call("find_best", "ok", top_n, 0)

\* --------------------------------------------- calculate_advanced_metrics
\* the keywords of the comprehensions of calculate_advanced_metrics
MetricsProfitKeywords == <<"profit">>
MetricsDdKeywords == <<"drawdown", "dd">>
MetricsProfitTable == [c \in Names |-> AnyKeywordIn(MetricsProfitKeywords, c)]
MetricsDdTable == [c \in Names |-> AnyKeywordIn(MetricsDdKeywords, c)]
\* 'profit' in col.lower()
IsMetricsProfitName(col) == MetricsProfitTable[col]
\* 'drawdown' in col.lower() or 'dd' in col.lower()
IsMetricsDdName(col) == MetricsDdTable[col]

ProfitColsMetrics(cols) == SelectSeq(cols, IsMetricsProfitName)
DdColsMetrics(cols) == SelectSeq(cols, IsMetricsDdName)

\* the non-null numbers of a Series, in order (pandas reductions skip nulls)
Numbers(series) ==
    LET pos == MaskPositions([i \in 1..Len(series) |-> IsNum(series[i])], 1)
    IN  [k \in 1..Len(pos) |-> series[pos[k]].v]

\* Series.sum(), .mean(), .max(), .min()
SeriesSum(xs) == Int2F(SumSeq(xs))
SeriesMean(xs) == IF xs = << >> THEN NaNF ELSE Frac(SumSeq(xs), Len(xs))
SeriesMax(xs) == IF xs = << >> THEN NaNF ELSE Int2F(SetMax(Elems(xs)))
SeriesMin(xs) == IF xs = << >> THEN NaNF ELSE Int2F(SetMin(Elems(xs)))

\* x > 0 on a float: False on nan
Positive(x) == ~IsNaNF(x) /\ x[1] > 0
\* a / b if b > 0 else 0
RatioOrZero(a, b) ==
    IF ~Positive(b) THEN Int2F(0)
    ELSE IF IsNaNF(a) THEN NaNF
    ELSE FracDiv(a, b)

\* avg_profit / returns_std if returns_std > 0 else 0, kept exact as the sign
\* of the mean and the square of the ratio: mean^2 / var, with the sample
\* variance var = (n * sum(x^2) - sum(x)^2) / (n * (n - 1))
SharpeRatio(xs, nrows) ==
    LET n == Len(xs)
        sm == SumSeq(xs)
        sq == SumSeq([k \in 1..n |-> xs[k] * xs[k]])
        varnum == n * sq - sm * sm
    IN  IF nrows <= 1 \/ n <= 1 \/ varnum <= 0 THEN [sign |-> 0, square |-> Int2F(0)]
        ELSE [sign |-> IF sm > 0 THEN 1 ELSE IF sm < 0 THEN -1 ELSE 0,
              square |-> Frac(sm * sm * (n - 1), n * varnum)]

\* (variant: no floor when there is no losing row)
TotalLosses_NoFloor(losing) == Int2F(Abs(SumSeq(losing)))
\* abs(losing_trades.sum()) if len(losing_trades) > 0 else 1
TotalLosses(losing) ==
    IF losing # << >> THEN Int2F(Abs(SumSeq(losing))) ELSE Int2F(1)

\* the metrics record, from the non-null profits, the non-null absolute
\* drawdowns (None without a drawdown column) and len(self.filtered_data)
MetricsOf(profits, drawdowns, nrows) ==
    LET has_dd == ~IsNone(drawdowns)
        total_profit == SeriesSum(profits)
        avg_profit == SeriesMean(profits)
        max_dd == IF has_dd THEN SeriesMax(Get(drawdowns)) ELSE Int2F(0)
        avg_dd == IF has_dd THEN SeriesMean(Get(drawdowns)) ELSE Int2F(0)
        winning == SelectSeq(profits, LAMBDA x : x > 0)
        losing == SelectSeq(profits, LAMBDA x : x < 0)
        total_wins == Int2F(SumSeq(winning))
        total_losses == TotalLosses(losing)
        avg_win == IF winning # << >> THEN SeriesMean(winning) ELSE Int2F(0)
        avg_loss ==
            IF losing # << >>
            THEN Frac(Abs(SumSeq(losing)), Len(losing))
            ELSE Int2F(1)
    IN  [total_optimizations |-> nrows,
         total_profit |-> total_profit,
         average_profit |-> avg_profit,
         max_profit |-> SeriesMax(profits),
         min_profit |-> SeriesMin(profits),
         max_drawdown |-> max_dd,
         average_drawdown |-> avg_dd,
         win_rate |-> IF nrows > 0
                      THEN Frac(Len(winning) * 100, nrows) ELSE Int2F(0),
         profit_factor |-> RatioOrZero(total_wins, total_losses),
         risk_reward_ratio |-> RatioOrZero(avg_win, avg_loss),
         sharpe_ratio |-> SharpeRatio(profits, nrows),
         calmar_ratio |->
             IF ~has_dd THEN Int2F(0)
             ELSE RatioOrZero(IF IsNaNF(avg_profit) THEN NaNF
                              ELSE Frac(avg_profit[1] * 252, avg_profit[2]),
                              max_dd),
         recovery_factor |->
             IF ~has_dd THEN Int2F(0) ELSE RatioOrZero(total_profit, max_dd),
         winning_trades |-> Len(winning),
         losing_trades |-> Len(losing),
         average_win |-> avg_win,
         average_loss |-> avg_loss]

\* abs(self.filtered_data[dd_col]), without its nulls
AbsNumbers(series) ==
    LET ds == Numbers(series) IN [k \in 1..Len(ds) |-> Abs(ds[k])]

\* the two Series are read once and the record is computed from their values
Metrics(T, profit_col, dd) ==
    CHOOSE m \in
        {MetricsOf(profits, drawdowns, NRows(T)) :
            profits \in {Numbers(Column(T, profit_col))},
            drawdowns \in {IF IsNone(dd) THEN None
                           ELSE Some(AbsNumbers(Column(T, Get(dd))))}} : TRUE

CalculateAdvancedMetrics ==
    /\ UNCHANGED <<data, filtered_data, variable_stats, best_optimizations,
                   printed>>
    /\ returned' = None
    /\ IF IsNone(filtered_data)
       THEN /\ last' = Call("metrics", "no_filtered", 0, 0)
            /\ UNCHANGED advanced_metrics
       ELSE IF ProfitColsMetrics(Get(filtered_data).cols) = << >>
       THEN /\ advanced_metrics' = Attr(EmptyDict)
            /\ last' = Call("metrics", "no_profit_col", 0, 0)
       ELSE LET T == Get(filtered_data)
                profit_col == ProfitColsMetrics(T.cols)[1]
                dd == IF DdColsMetrics(T.cols) # << >>
                      THEN Some(DdColsMetrics(T.cols)[1]) ELSE None
            IN  IF HasStr(Column(T, profit_col))
                   \/ (~IsNone(dd) /\ HasStr(Column(T, Get(dd))))
                THEN /\ advanced_metrics' = Attr(EmptyDict)
                     /\ last' = Call("metrics", "raised", 0, 0)
                ELSE /\ advanced_metrics' = Attr(Metrics(T, profit_col, dd))
                     /\ last' = Call("metrics", "ok", 0, 0)

\* ---------------------------------------------------- categorize_variables
\* result_keywords of categorize_variables
CategorizeResultKeywords ==
    <<"profit", "gain", "drawdown", "dd", "trades", "total", "net", "gross",
      "balance", "equity", "result", "pass">>

\* (variant: timing tried before the other categories)
CategoryOrder_TimingFirst == <<"timing", "signal", "risk_management", "filter">>
\* variable_categories, in the order the dict lists them
CategoryOrder == <<"signal", "risk_management", "timing", "filter">>

CategoryKeywords ==
    [signal |-> <<"rsi", "ma", "ema", "sma", "macd", "bollinger", "stoch",
                  "period">>,
     risk_management |-> <<"sl", "tp", "stop", "take", "risk", "position",
                           "lot">>,
     timing |-> <<"hour", "time", "session", "day", "week">>,
     filter |-> <<"filter", "confirm", "trend", "volume">>]

\* for category, keywords in variable_categories.items(): the first category
\* one of whose keywords is in col_lower, 'other' when the loop ends without
\* a break
RECURSIVE CategoryFrom(_, _)
CategoryFrom(categories, col) ==
    IF categories = << >> THEN "other"
    ELSE IF AnyKeywordIn(CategoryKeywords[Head(categories)], col)
         THEN Head(categories)
         ELSE CategoryFrom(Tail(categories), col)

\* The tests of every column name, computed once.
CategorizeResultTable ==
    [c \in Names |-> AnyKeywordIn(CategorizeResultKeywords, c)]
CategoryTable == [c \in Names |-> CategoryFrom(CategoryOrder, c)]

\* categorized = {'signal': [], 'risk_management': [], 'timing': [],
\*                'filter': [], 'other': []}
EmptyCategories ==
    [signal |-> << >>, risk_management |-> << >>, timing |-> << >>,
     filter |-> << >>, other |-> << >>]

\* for col in self.filtered_data.columns: ... categorized[category].append(col)
RECURSIVE CategorizeLoop(_, _)
CategorizeLoop(categorized, cols) ==
    IF cols = << >> THEN categorized
    ELSE IF CategorizeResultTable[Head(cols)]
         THEN CategorizeLoop(categorized, Tail(cols))
         ELSE CategorizeLoop(
                  [categorized EXCEPT ![CategoryTable[Head(cols)]] =
                       Append(@, Head(cols))],
                  Tail(cols))

CategorizeVariables ==
    /\ UNCHANGED <<data, filtered_data, variable_stats, best_optimizations,
                   advanced_metrics, printed>>
    /\ IF IsNone(filtered_data)
       THEN /\ returned' = Some(EmptyDict)
            /\ last' = Call("categorize", "no_filtered", 0, 0)
       ELSE /\ returned' =
                  Some(CategorizeLoop(EmptyCategories, Get(filtered_data).cols))
            /\ last' = Call("categorize", "ok", 0, 0)

Next ==
    \/ NewSession
    \/ \E p \in MinProfits, d \in MaxDrawdowns : FilterProfitableOptimizations(p, d)
    \/ AnalyzeVariables
    \/ \E n \in TopNs : FindBestOptimizations(n)
    \/ CalculateAdvancedMetrics
    \/ CategorizeVariables

Spec == Init /\ [][Next]_vars

\* A session on a sweep table: the table is filtered and its variable
\* analysed.
NewGroupSession ==
    /\ last.op = "init"
    /\ \E T \in GroupTables : data' = Some(T)
    /\ filtered_data' = None
    /\ variable_stats' = EmptyDict
    /\ best_optimizations' = << >>
    /\ advanced_metrics' = NoAttr
    /\ printed' = NothingPrinted
    /\ returned' = None
    /\ last' = Call("load", "ok", 0, 0)

NextGroups ==
    \/ NewGroupSession
    \/ \E p \in MinProfits, d \in MaxDrawdowns : FilterProfitableOptimizations(p, d)
    \/ AnalyzeVariables

SpecGroups == Init /\ [][NextGroups]_vars

\* ---------------------------------------------------------- load_excel_xml
\* self.data = pd.read_excel(file_path) on a session in any state: the table
\* read replaces data and True is returned; when the file cannot be read the
\* exception is printed and False is returned. No other field is assigned.
LoadExcelXml ==
    /\ UNCHANGED <<filtered_data, variable_stats, best_optimizations,
                   advanced_metrics, printed>>
    /\ \/ /\ \E T \in ReloadTables : data' = Some(T)
          /\ returned' = Some(TRUE)
          /\ last' = Call("load", "ok", 0, 0)
       \/ /\ UNCHANGED data
          /\ returned' = Some(FALSE)
          /\ last' = Call("load", "error", 0, 0)

\* One session that loads files one after the other and runs the stages in
\* any order.
NextReload ==
    \/ LoadExcelXml
    \/ \E p \in MinProfits, d \in MaxDrawdowns : FilterProfitableOptimizations(p, d)
    \/ AnalyzeVariables
    \/ \E n \in TopNs : FindBestOptimizations(n)
    \/ CalculateAdvancedMetrics

SpecReload == Init /\ [][NextReload]_vars


\* ===================================================================
\*                             Properties
\* ===================================================================
FilterDone == last.op = "filter" /\ last.res = "ok"
FindBestDone == last.op = "find_best" /\ last.res = "ok"

\* the positions of the rows of T with profit >= p and, when there is a
\* drawdown column, |drawdown| <= d; a null satisfies neither comparison
PassingRows(T, p, d, profit_col, dd_col) ==
    {i \in 1..NRows(T) :
        /\ IsNum(CellOf(T, i, profit_col))
        /\ CellOf(T, i, profit_col).v >= p
        /\ \/ IsNone(dd_col)
           \/ /\ IsNum(CellOf(T, i, Get(dd_col)))
              /\ CellOf(T, i, Get(dd_col)).v <= d
              /\ -CellOf(T, i, Get(dd_col)).v <= d}

\* C1: after a filter call that completes, the filtered table has the
\* columns of the loaded table and exactly its rows with profit >= min_profit
\* and (no drawdown column or |drawdown| <= max_drawdown), each once, in the
\* original row order; every row left out fails one of the two conditions.
C1_FilterKeepsExactlyThePassingRows ==
    FilterDone =>
        LET T == Get(data)
            F == Get(filtered_data)
            keep == PassingRows(T, last.a, last.b,
                                Get(printed.profit_col), printed.dd_col)
        IN  /\ F.cols = T.cols
            /\ Len(F.index) = Len(F.rows)
            /\ Len(F.rows) = Cardinality(keep)
            /\ \A k \in 1..Len(F.rows) :
                   /\ (F.index[k] + 1) \in keep
                   /\ F.rows[k] = T.rows[F.index[k] + 1]
            /\ \A k \in 1..(Len(F.rows) - 1) : F.index[k] < F.index[k + 1]

\* a filter kept a row, dropped one for its profit and dropped one whose
\* profit passes for its drawdown alone
C1_Witness ==
    /\ FilterDone
    /\ ~IsNone(printed.dd_col)
    /\ NRows(Get(filtered_data)) >= 1
    /\ \E i \in 1..NRows(Get(data)) :
           ~(/\ IsNum(CellOf(Get(data), i, Get(printed.profit_col)))
             /\ CellOf(Get(data), i, Get(printed.profit_col)).v >= last.a)
    /\ \E i \in 1..NRows(Get(data)) :
           /\ i \in PassingRows(Get(data), last.a, last.b,
                                Get(printed.profit_col), None)
           /\ i \notin PassingRows(Get(data), last.a, last.b,
                                   Get(printed.profit_col), printed.dd_col)

\* C2: filtering is idempotent: the filter, run with the same thresholds on
\* the table it produced, completes and yields the same rows with the same
\* index labels in the same order.
C2_FilterIdempotent ==
    FilterDone =>
        LET F == Get(filtered_data)
        IN  /\ ProfitColsFilter(F.cols) # << >>
            /\ ~FilterRaises(F)
            /\ FilterTable(F, last.a, last.b) = F

\* a filter that kept some rows and dropped others
C2_Witness ==
    /\ FilterDone
    /\ NRows(Get(filtered_data)) >= 1
    /\ NRows(Get(filtered_data)) < NRows(Get(data))

\* ------------------------------------------------------------- ranking
IsPrefix(a, b) == Len(a) <= Len(b) /\ \A k \in 1..Len(a) : a[k] = b[k]

\* the sequences of m distinct row positions of a table of n rows
Picks(n, m) == {pos \in [1..m -> 1..n] : IsInjective(pos)}

\* the record carries the row: every column other than the profit column
\* under its own name, and the profit under 'profit' unless another column
\* is itself named 'profit'
RecordOfRow(rec, F, i, profit_col) ==
    LET others == {F.cols[j] : j \in 1..Len(F.cols)} \ {profit_col}
    IN  /\ \A c \in others : c \in DOMAIN rec /\ rec[c] = CellOf(F, i, c)
        /\ "profit" \notin others =>
               /\ "profit" \in DOMAIN rec
               /\ rec["profit"] = CellOf(F, i, profit_col)

\* C3: find_best_optimizations(top_n) yields min(top_n, rows) records: the
\* rows of greatest profit, in descending profit order, rows of equal profit
\* in their original order; with top_n >= rows it lists every filtered row.
C3_TopNRanking ==
    FindBestDone =>
        LET F == Get(filtered_data)
            pc == Get(printed.profit_col)
            m == IF last.a <= NRows(F) THEN last.a ELSE NRows(F)
            P(i) == CellOf(F, i, pc).v
        IN  /\ Len(best_optimizations) = m
            /\ \E pos \in Picks(NRows(F), m) :
                   /\ \A k \in 1..m :
                          RecordOfRow(best_optimizations[k], F, pos[k], pc)
                   /\ \A k \in 1..(m - 1) :
                          \/ P(pos[k]) > P(pos[k + 1])
                          \/ P(pos[k]) = P(pos[k + 1]) /\ pos[k] < pos[k + 1]
                   /\ \A i \in 1..NRows(F) :
                          (\A k \in 1..m : pos[k] # i) =>
                              \A k \in 1..m : P(i) <= P(pos[k])

\* two of three filtered rows are listed, the rows differ, and two rows of
\* equal profit are among the three
C3_Witness ==
    /\ FindBestDone
    /\ last.a = 2
    /\ NRows(Get(filtered_data)) = 3
    /\ \E i, j \in 1..3 :
           /\ i < j
           /\ Get(filtered_data).rows[i] # Get(filtered_data).rows[j]
           /\ CellOf(Get(filtered_data), i, Get(printed.profit_col))
                  = CellOf(Get(filtered_data), j, Get(printed.profit_col))
    /\ Len(best_optimizations) = 2
    /\ best_optimizations[1] # best_optimizations[2]

\* C4: top-N monotonicity: the list produced for top_n is a prefix of the
\* list the same table gives for every greater top_n, and extends the list
\* it gives for every smaller one.
C4_TopNPrefix ==
    FindBestDone =>
        LET F == Get(filtered_data)
            pc == ProfitColsBest(F.cols)[1]
        IN  \A n \in TopNs :
                /\ last.a < n => IsPrefix(best_optimizations, BestList(F, n, pc))
                /\ n < last.a => IsPrefix(BestList(F, n, pc), best_optimizations)

\* a list of two records that strictly extends the list for top_n = 1 and
\* is strictly extended by the list for top_n = 3
C4_Witness ==
    /\ FindBestDone
    /\ last.a = 2
    /\ Len(best_optimizations) = 2
    /\ NRows(Get(filtered_data)) = 3
    /\ Len(BestList(Get(filtered_data), 1,
                    ProfitColsBest(Get(filtered_data).cols)[1])) = 1
    /\ Len(BestList(Get(filtered_data), 3,
                    ProfitColsBest(Get(filtered_data).cols)[1])) = 3

\* C5: find_best_optimizations is idempotent on a session: a second call
\* right after a first one, with the same top_n and the same filtered table,
\* leaves best_optimizations as the first call left it.
C5_FindBestIdempotent ==
    [][(FindBestDone /\ FindBestOptimizations(last.a))
          => best_optimizations' = best_optimizations]_vars

\* a call listed three records; the call repeated from this state ends in it
C5_Witness ==
    /\ FindBestDone
    /\ last.a = 3
    /\ Len(best_optimizations) = 3
    /\ ENABLED FindBestOptimizations(3)

ColumnSet(T) == {T.cols[j] : j \in 1..Len(T.cols)}

\* C6: every record preserves every original column and adds the row's
\* profit: each column other than the profit column is a key holding the
\* row's value, and the key 'profit' holds the row's value of the profit
\* column (the weakest reading: the profit column need not also be kept
\* under its own name).
C6_EveryColumnPreserved ==
    FindBestDone =>
        LET F == Get(filtered_data)
            pc == Get(printed.profit_col)
        IN  \A k \in 1..Len(best_optimizations) :
                \E i \in 1..NRows(F) :
                    LET rec == best_optimizations[k]
                    IN  /\ \A c \in ColumnSet(F) \ {pc} :
                               c \in DOMAIN rec /\ rec[c] = CellOf(F, i, c)
                        /\ "profit" \in DOMAIN rec
                        /\ rec["profit"] = CellOf(F, i, pc)

\* ------------------------------------------------------ derived state
\* what a session that never analysed anything before computes from the
\* current filtered table
FreshStats ==
    IF IsNone(filtered_data) THEN EmptyDict
    ELSE IF NRows(Get(filtered_data)) = 0 THEN EmptyDict
    ELSE IF ProfitColsAnalyze(Get(filtered_data).cols) = << >> THEN EmptyDict
    ELSE AnalyzeLoop(EmptyDict, Get(filtered_data),
                     VariableCols(Get(filtered_data).cols),
                     ProfitColsAnalyze(Get(filtered_data).cols)[1])

FreshBest(top_n) ==
    IF IsNone(filtered_data) THEN << >>
    ELSE BestList(Get(filtered_data), top_n,
                  ProfitColsBest(Get(filtered_data).cols)[1])

FreshMetrics ==
    IF IsNone(filtered_data) THEN NoAttr
    ELSE IF ProfitColsMetrics(Get(filtered_data).cols) = << >> THEN Attr(EmptyDict)
    ELSE Attr(Metrics(Get(filtered_data),
                      ProfitColsMetrics(Get(filtered_data).cols)[1],
                      IF DdColsMetrics(Get(filtered_data).cols) # << >>
                      THEN Some(DdColsMetrics(Get(filtered_data).cols)[1])
                      ELSE None))

\* C7: a re-run replaces all derived state: right after each stage has run
\* on the current filtered table, the field it computes equals what a fresh
\* session computes from that table, whatever the session computed before
\* (the other stages leave the field alone).
C7_RerunReplacesDerivedState ==
    /\ last.op = "analyze" => variable_stats = FreshStats
    /\ last.op = "find_best" => best_optimizations = FreshBest(last.a)
    /\ last.op = "metrics" => advanced_metrics = FreshMetrics

\* C8: filtered_data is None exactly when no filter call has completed on
\* the session (none has printed its row count); a completed filter leaves a
\* table, of zero rows when no row passes.
C8_NotRunDiffersFromNoRows ==
    /\ IsNone(filtered_data) <=> IsNone(printed.count)
    /\ FilterDone => ~IsNone(filtered_data)
    /\ ~IsNone(printed.count) =>
           NRows(Get(filtered_data)) = Get(printed.count)

\* a filter completed on a table with rows and kept none of them
C8_Witness ==
    /\ FilterDone
    /\ NRows(Get(data)) >= 1
    /\ printed.count = Some(0)
    /\ filtered_data = Some(Take(Get(data), << >>))

\* ------------------------------------------------------ column choice
\* the first column, in table order, that `names` marks; None without one
FirstMarked(cols, names) ==
    IF \E j \in 1..Len(cols) : names[cols[j]]
    THEN Some(cols[CHOOSE j \in 1..Len(cols) :
                       /\ names[cols[j]]
                       /\ \A h \in 1..(j - 1) : ~names[cols[h]]])
    ELSE None

\* the filter stops for want of a profit column exactly when no column is
\* marked as profit, and otherwise uses the first column marked as profit
\* and the first marked as drawdown (none when no column is marked)
FilterUsesFirstMarked(profit_names, dd_names) ==
    (last.op = "filter" /\ last.res # "no_data") =>
        /\ last.res = "no_profit_col"
               <=> IsNone(FirstMarked(Get(data).cols, profit_names))
        /\ last.res # "no_profit_col" =>
               /\ printed.profit_col = FirstMarked(Get(data).cols, profit_names)
               /\ printed.dd_col = FirstMarked(Get(data).cols, dd_names)

\* the names of the pool that contain, lower-cased, a keyword of each set
NamesWithProfitGainResult ==
    [c \in Names |-> AnyKeywordIn(<<"profit", "gain", "result">>, c)]
NamesWithDrawdownDdLoss ==
    [c \in Names |-> AnyKeywordIn(<<"drawdown", "dd", "loss">>, c)]
NamesWithProfitGainResultat ==
    [c \in Names |-> AnyKeywordIn(<<"profit", "gain", "resultat">>, c)]
NamesWithDrawdownDdPerte ==
    [c \in Names |-> AnyKeywordIn(<<"drawdown", "dd", "perte">>, c)]

\* C9 as stated: keywords 'profit', 'gain', 'result' and 'drawdown', 'dd',
\* 'loss'.
C9_KeywordsResultAndLoss ==
    FilterUsesFirstMarked(NamesWithProfitGainResult, NamesWithDrawdownDdLoss)

\* C9 amended: the profit column is the first column whose lower-cased name
\* contains 'profit', 'gain' or 'resultat', the drawdown column the first
\* whose lower-cased name contains 'drawdown', 'dd' or 'perte'; the table
\* has no such column exactly when no name contains a keyword of the set.
C9_KeywordsResultatAndPerte ==
    FilterUsesFirstMarked(NamesWithProfitGainResultat, NamesWithDrawdownDdPerte)

\* a filter ran on a table with two profit columns and used the first;
\* neither name matches a keyword before it is lower-cased
C9_Witness ==
    /\ FilterDone
    /\ Get(data).cols = <<"Gain", "Profit">>
    /\ printed.profit_col = Some("Gain")
    /\ printed.dd_col = None

\* C10: no column is both a variable and a result column: a column with a
\* VariableStat entry matches no result keyword and is neither the profit
\* column nor the drawdown column the filter uses.
C10_NoResultColumnAnalysed ==
    \A c \in DOMAIN variable_stats :
        /\ IsVariableName(c)
        /\ printed.profit_col # Some(c)
        /\ printed.dd_col # Some(c)

\* ------------------------------------------------------ categories
CategorizeDone == last.op = "categorize" /\ last.res = "ok"

FiveCategories == {"signal", "risk_management", "timing", "filter", "other"}

\* the category the keyword table gives a name: the first of signal,
\* risk_management, timing, filter with a keyword in the lower-cased name
CategoryPriority == <<"signal", "risk_management", "timing", "filter">>
ExpectedCategory ==
    [c \in Names |->
        IF \E k \in 1..4 : AnyKeywordIn(CategoryKeywords[CategoryPriority[k]], c)
        THEN CategoryPriority[
                 CHOOSE k \in 1..4 :
                     /\ AnyKeywordIn(CategoryKeywords[CategoryPriority[k]], c)
                     /\ \A h \in 1..(k - 1) :
                            ~AnyKeywordIn(CategoryKeywords[CategoryPriority[h]], c)]
        ELSE "other"]

\* s lists some of the names of cols, each once, in the order of cols
InTableOrder(s, cols) ==
    \E f \in [1..Len(s) -> 1..Len(cols)] :
        /\ \A i \in 1..Len(s) : cols[f[i]] = s[i]
        /\ \A i, j \in 1..Len(s) : i < j => f[i] < f[j]

\* C11: categorize_variables puts each column that matches no result keyword
\* in exactly one of the five categories, the first of signal,
\* risk_management, timing, filter with a keyword in the lower-cased name and
\* else 'other'; a column matching a result keyword is in no category; the
\* columns of a category are in table order.
C11_OneCategoryPerVariable ==
    CategorizeDone =>
        LET cat == Get(returned)
            cols == Get(filtered_data).cols
        IN  /\ DOMAIN cat = FiveCategories
            /\ \A g \in FiveCategories : InTableOrder(cat[g], cols)
            /\ \A j \in 1..Len(cols) :
                   \A g \in FiveCategories :
                       (\E i \in 1..Len(cat[g]) : cat[g][i] = cols[j])
                           <=> /\ ~CategorizeResultTable[cols[j]]
                               /\ g = ExpectedCategory[cols[j]]

\* two columns of one category, the first with keywords of two categories
\* ('stop' of risk_management and 'time' of timing), after the profit column
C11_Witness ==
    /\ CategorizeDone
    /\ Get(filtered_data).cols = <<"Profit", "StopTime", "Lot">>
    /\ Get(returned).risk_management = <<"StopTime", "Lot">>
    /\ Get(returned).timing = << >>

\* ------------------------------------------------------ missing column
\* C12: when no column matches the profit keywords, filter, find_best and
\* calculate_advanced_metrics report it to the caller by a return value that
\* differs from the one of a successful call.  Each of the three ends
\* without a return statement on success, so it then returns None: a
\* report of the missing column is a return value other than None.
C12_MissingColumnReported ==
    (last.op \in {"filter", "find_best", "metrics"} /\ last.res = "no_profit_col")
        => ~IsNone(returned)

\* C13: after calculate_advanced_metrics has been called the session has an
\* advanced_metrics field, and the field is empty when the call computed no
\* metrics (no filtering completed, or no profit column resolvable).
C13_AdvancedMetricsExists ==
    last.op = "metrics" =>
        /\ advanced_metrics.set
        /\ last.res # "ok" => advanced_metrics.val = EmptyDict

\* ------------------------------------------------------ metrics
MetricsDone == last.op = "metrics" /\ last.res = "ok"

\* the profits the metrics are computed from: the non-null values of the
\* first column of the filtered table whose lower-cased name has 'profit'
MetricsProfits ==
    Numbers(Column(Get(filtered_data),
                   ProfitColsMetrics(Get(filtered_data).cols)[1]))

IsLoss(x) == x < 0
IsWin(x) == x > 0

\* C14: profit_factor and risk_reward_ratio never divide by zero: the
\* denominator is the absolute sum (resp. absolute mean) of the profits < 0
\* when there are any and 1 when there are none, and is positive; with no
\* losing row profit_factor is the sum of the positive profits, which is the
\* total profit when every profit is positive.
C14_DenominatorFloor ==
    MetricsDone =>
        LET m == advanced_metrics.val
            wins == SelectSeq(MetricsProfits, IsWin)
            losses == SelectSeq(MetricsProfits, IsLoss)
            pf_den == IF losses # << >> THEN -SumSeq(losses) ELSE 1
            \* the means as numerator and denominator
            win_num == IF wins # << >> THEN SumSeq(wins) ELSE 0
            win_den == IF wins # << >> THEN Len(wins) ELSE 1
            loss_num == IF losses # << >> THEN -SumSeq(losses) ELSE 1
            loss_den == IF losses # << >> THEN Len(losses) ELSE 1
        IN  /\ pf_den > 0 /\ loss_num > 0
            /\ m.profit_factor[2] > 0
            /\ m.profit_factor[1] * pf_den = SumSeq(wins) * m.profit_factor[2]
            /\ m.risk_reward_ratio[2] > 0
            /\ m.risk_reward_ratio[1] * win_den * loss_num
                   = m.risk_reward_ratio[2] * win_num * loss_den
            /\ losses = << >> => m.profit_factor = <<SumSeq(wins), 1>>
            /\ Len(wins) = Len(MetricsProfits) =>
                   m.profit_factor = m.total_profit

\* metrics of a table with two losing rows and one winning row
C14_Witness ==
    /\ MetricsDone
    /\ advanced_metrics.val.losing_trades = 2
    /\ advanced_metrics.val.winning_trades = 1
    /\ advanced_metrics.val.profit_factor = <<1, 2>>

\* the numeric fields of the metrics record: counts are integers, the
\* Sharpe ratio is kept as sign and square, the others are fractions
IsZeroField(name, v) ==
    IF name \in {"total_optimizations", "winning_trades", "losing_trades"}
    THEN v = 0
    ELSE IF name = "sharpe_ratio" THEN v.sign = 0
    ELSE v = <<0, 1>>

\* C15: on a loaded table of zero rows the four stages raise no error and
\* leave a filtered table of 0 rows, an empty variable_stats, an empty
\* best_optimizations and metrics whose every numeric field is zero.
C15_EmptyTableGivesZeros ==
    (~IsNone(data) /\ NRows(Get(data)) = 0) =>
        /\ last.res # "raised"
        /\ ~IsNone(filtered_data) => NRows(Get(filtered_data)) = 0
        /\ variable_stats = EmptyDict
        /\ best_optimizations = << >>
        /\ MetricsDone =>
               \A name \in DOMAIN advanced_metrics.val :
                   IsZeroField(name, advanced_metrics.val[name])

\* ------------------------------------------------------ malformed values
\* C16: a non-numeric value in the profit or the drawdown column never
\* aborts the filter: on a table with a profit column the call completes
\* without raising, and the filtered table holds exactly the rows that pass
\* the normal predicate, a row with a malformed value passing it never.
C16_MalformedValueSkipped ==
    (last.op = "filter" /\ last.res \notin {"no_data", "no_profit_col"}) =>
        /\ last.res = "ok"
        /\ LET T == Get(data)
               F == Get(filtered_data)
               keep == PassingRows(T, last.a, last.b,
                                   Get(printed.profit_col), printed.dd_col)
           IN  /\ Len(F.rows) = Cardinality(keep)
               /\ \A k \in 1..Len(F.rows) :
                      /\ (F.index[k] + 1) \in keep
                      /\ F.rows[k] = T.rows[F.index[k] + 1]

\* ------------------------------------------------------ loaded table
\* C17: the loaded table is immutable for the engine: once loaded, no call of
\* filter, analyze, find_best, calculate_advanced_metrics or categorize
\* changes the rows, their order, the columns or a cell of data.
C17_DataImmutable == [][~IsNone(data) => data' = data]_vars

\* every stage has run on a table the filter dropped a row of, and the
\* table still has its rows
C17_Witness ==
    /\ last.op = "categorize"
    /\ ~IsNone(filtered_data)
    /\ best_optimizations # << >>
    /\ variable_stats # EmptyDict
    /\ advanced_metrics.set
    /\ NRows(Get(filtered_data)) < NRows(Get(data))
    /\ NRows(Get(data)) = MaxRows

\* ------------------------------------------------------ variable statistics
AnalyzeDone == last.op = "analyze" /\ last.res = "ok"

\* the filtered rows in which the variable c and the profit are non-null
CleanRows(F, c, pc) ==
    {i \in 1..NRows(F) : ~IsNull(CellOf(F, i, c)) /\ ~IsNull(CellOf(F, i, pc))}

\* the values of c over those rows, and the rows of one value
ValuesOf(F, c, pc) == {CellOf(F, i, c) : i \in CleanRows(F, c, pc)}
GroupOf(F, c, pc, x) == {i \in CleanRows(F, c, pc) : CellOf(F, i, c) = x}

\* the sum of the profits of a set of rows
RECURSIVE ProfitSum(_, _, _)
ProfitSum(F, pc, rows) ==
    IF rows = {} THEN 0
    ELSE LET i == CHOOSE i \in rows : TRUE
         IN  CellOf(F, i, pc).v + ProfitSum(F, pc, rows \ {i})

\* the mean profit of the rows of one value, as a quotient
GroupMean(F, c, pc, x) ==
    Frac(ProfitSum(F, pc, GroupOf(F, c, pc, x)), Cardinality(GroupOf(F, c, pc, x)))

MeanOfGroupMeans(F, c, pc) ==
    LET xs == ValuesOf(F, c, pc)
        RECURSIVE Total(_)
        Total(S) == IF S = {} THEN <<0, 1>>
                    ELSE LET x == CHOOSE x \in S : TRUE
                         IN  FracAdd(GroupMean(F, c, pc, x), Total(S \ {x}))
    IN  Frac(Total(xs)[1], Total(xs)[2] * Cardinality(xs))

\* profit_moyen of c is the sum of the profits of the cleaned rows divided
\* by their number
IsMeanOverRows(F, c, pc) ==
    LET rows == CleanRows(F, c, pc)
    IN  /\ variable_stats[c].profit_moyen[2] > 0
        /\ variable_stats[c].profit_moyen[1] * Cardinality(rows)
               = ProfitSum(F, pc, rows) * variable_stats[c].profit_moyen[2]

\* some two groups of c differ in size, and some two differ in mean
UnequalSizesAndMeans(F, c, pc) ==
    /\ \E x, y \in ValuesOf(F, c, pc) :
           Cardinality(GroupOf(F, c, pc, x)) # Cardinality(GroupOf(F, c, pc, y))
    /\ \E x, y \in ValuesOf(F, c, pc) :
           GroupMean(F, c, pc, x) # GroupMean(F, c, pc, y)

\* C19 as stated: profit_moyen is the mean of the profit over the cleaned
\* rows, and it differs from the mean of the group means whenever groups
\* have unequal sizes and unequal means.
C19_DiffersWheneverUnequal ==
    AnalyzeDone =>
        \A c \in DOMAIN variable_stats :
            LET F == Get(filtered_data)
                pc == Get(printed.profit_col)
            IN  /\ IsMeanOverRows(F, c, pc)
                /\ UnequalSizesAndMeans(F, c, pc) =>
                       variable_stats[c].profit_moyen # MeanOfGroupMeans(F, c, pc)

\* C19 amended: profit_moyen is the mean of the profit over the filtered rows
\* in which the variable and the profit are non-null, not the mean of the
\* group means; the two differ whenever there are exactly two groups, of
\* unequal sizes and unequal means (with three groups or more they can
\* coincide).
C19_MeanOverRows ==
    AnalyzeDone =>
        \A c \in DOMAIN variable_stats :
            LET F == Get(filtered_data)
                pc == Get(printed.profit_col)
            IN  /\ IsMeanOverRows(F, c, pc)
                /\ (Cardinality(ValuesOf(F, c, pc)) = 2
                    /\ UnequalSizesAndMeans(F, c, pc)) =>
                       variable_stats[c].profit_moyen # MeanOfGroupMeans(F, c, pc)

\* two groups, of two rows with mean 2 and of one row with mean 4: the mean
\* over the rows is 8/3, the mean of the group means 3
C19_Witness ==
    /\ AnalyzeDone
    /\ "RSI_Period" \in DOMAIN variable_stats
    /\ variable_stats["RSI_Period"].valeurs_uniques = 2
    /\ variable_stats["RSI_Period"].profit_moyen = <<8, 3>>
    /\ MeanOfGroupMeans(Get(filtered_data), "RSI_Period", "Profit") = <<3, 1>>

\* C20: top_valeurs holds min(5, number of distinct values) entries, pairwise
\* different in 'valeur', each the mean of its value group, in descending
\* order of profit_moyen, and no group left out has a mean greater than that
\* of a listed entry.
C20_TopFiveGroups ==
    AnalyzeDone =>
        \A c \in DOMAIN variable_stats :
            LET F == Get(filtered_data)
                pc == Get(printed.profit_col)
                top == variable_stats[c].top_valeurs
                xs == ValuesOf(F, c, pc)
                listed == {top[k].valeur : k \in 1..Len(top)}
            IN  /\ Len(top) = (IF Cardinality(xs) < 5 THEN Cardinality(xs) ELSE 5)
                /\ \A k, h \in 1..Len(top) : top[k].valeur = top[h].valeur => k = h
                /\ \A k \in 1..Len(top) :
                       /\ top[k].valeur \in xs
                       /\ top[k].profit_moyen = GroupMean(F, c, pc, top[k].valeur)
                /\ \A k \in 1..(Len(top) - 1) :
                       ~FracLt(top[k].profit_moyen, top[k + 1].profit_moyen)
                /\ \A x \in xs \ listed :
                       \A k \in 1..Len(top) :
                           ~FracLt(top[k].profit_moyen, GroupMean(F, c, pc, x))

\* six values: five are listed, the one left out has the least mean and is
\* not the last value of the variable
C20_Witness ==
    /\ AnalyzeDone
    /\ "RSI_Period" \in DOMAIN variable_stats
    /\ variable_stats["RSI_Period"].valeurs_uniques = 6
    /\ Len(variable_stats["RSI_Period"].top_valeurs) = 5
    /\ variable_stats["RSI_Period"].top_valeurs[5].profit_moyen = <<4, 1>>
    /\ \E k \in 1..5 : variable_stats["RSI_Period"].top_valeurs[k].valeur = Num(6)

\* C21: each top_valeurs entry of a variable column describes exactly the
\* cleaned filtered rows whose value of the variable is the entry's 'valeur':
\* 'occurrences' is their number, 'profit_total' the sum of their profits and
\* 'profit_moyen' that sum divided by that number; no two entries share a
\* value.
C21_TopEntryDescribesItsGroup ==
    AnalyzeDone =>
        LET F == Get(filtered_data)
            pc == Get(printed.profit_col)
        IN  \A c \in DOMAIN variable_stats :
                LET top == variable_stats[c].top_valeurs
                IN  /\ \A k \in 1..Len(top) :
                           LET rows == GroupOf(F, c, pc, top[k].valeur)
                           IN  /\ rows # {}
                               /\ top[k].occurrences = Cardinality(rows)
                               /\ top[k].profit_total = ProfitSum(F, pc, rows)
                               /\ top[k].profit_moyen =
                                      Frac(ProfitSum(F, pc, rows), Cardinality(rows))
                    /\ \A j, k \in 1..Len(top) :
                           top[j].valeur = top[k].valeur => j = k

\* values [1, 1, 2, 2, 2] with profits [2, 4, 2, 2, 4]: the first entry is
\* the value 1 with mean 3 over 2 rows, the second the value 2 with mean
\* 8/3 over 3 rows
C21_Witness ==
    /\ AnalyzeDone
    /\ "RSI_Period" \in DOMAIN variable_stats
    /\ NRows(Get(filtered_data)) = 5
    /\ variable_stats["RSI_Period"].top_valeurs =
           << [valeur |-> Num(1), profit_moyen |-> <<3, 1>>,
               occurrences |-> 2, profit_total |-> 6],
              [valeur |-> Num(2), profit_moyen |-> <<8, 3>>,
               occurrences |-> 3, profit_total |-> 8] >>

\* C22: a variable column with no row in which the variable and the profit
\* are both non-null in the current filtered table is skipped: when
\* analyze_variables returns, variable_stats holds no entry for that column.
C22_EmptyColumnSkipped ==
    AnalyzeDone =>
        LET F == Get(filtered_data)
            pc == Get(printed.profit_col)
        IN  \A j \in 1..Len(F.cols) :
                (IsVariableName(F.cols[j]) /\ CleanRows(F, F.cols[j], pc) = {})
                    => F.cols[j] \notin DOMAIN variable_stats

\* the statistics of column c fail: c is the profit column itself, and
\* grouping a column by itself raises
StatsFail(F, c, pc) == c = pc /\ CleanRows(F, c, pc) # {}

\* the entry of column c has every field, computed from the current
\* filtered table
IsCompleteEntry(st, F, c, pc) ==
    LET profits == {CellOf(F, i, pc).v : i \in CleanRows(F, c, pc)}
        nvalues == Cardinality(ValuesOf(F, c, pc))
    IN  /\ DOMAIN st = {"occurrences", "valeurs_uniques", "profit_min",
                        "profit_max", "profit_moyen", "top_valeurs"}
        /\ st.occurrences = nvalues
        /\ st.valeurs_uniques = nvalues
        /\ st.profit_min \in profits /\ \A y \in profits : st.profit_min <= y
        /\ st.profit_max \in profits /\ \A y \in profits : y <= st.profit_max
        /\ st.profit_moyen =
               Frac(ProfitSum(F, pc, CleanRows(F, c, pc)),
                    Cardinality(CleanRows(F, c, pc)))
        /\ Len(st.top_valeurs) = MinOf(5, nvalues)
        /\ \A k \in 1..Len(st.top_valeurs) :
               st.top_valeurs[k].valeur \in ValuesOf(F, c, pc)

\* C23: when the statistics of a variable column fail, analyze_variables
\* still returns, the failing column has no entry, not even a partly filled
\* one, and every other variable column with a cleaned row has its complete
\* entry.
C23_FaultIsolation ==
    AnalyzeDone =>
        LET F == Get(filtered_data)
            pc == Get(printed.profit_col)
            variables == {F.cols[j] : j \in {i \in 1..Len(F.cols) :
                                                 IsVariableName(F.cols[i])}}
        IN  (\E f \in variables : StatsFail(F, f, pc)) =>
                \A c \in variables :
                    /\ StatsFail(F, c, pc) => c \notin DOMAIN variable_stats
                    /\ (~StatsFail(F, c, pc) /\ CleanRows(F, c, pc) # {}) =>
                           /\ c \in DOMAIN variable_stats
                           /\ IsCompleteEntry(variable_stats[c], F, c, pc)

\* the profit column 'Resultat' is analysed as a variable and fails; the
\* column after it has its entry
C23_Witness ==
    /\ AnalyzeDone
    /\ Get(filtered_data).cols = <<"Resultat", "RSI_Period">>
    /\ StatsFail(Get(filtered_data), "Resultat", Get(printed.profit_col))
    /\ DOMAIN variable_stats = {"RSI_Period"}
    /\ Len(variable_stats["RSI_Period"].top_valeurs) >= 1

\* ------------------------------------------------------ profit field
\* C24: in every record of best_optimizations the 'profit' field is the
\* row's value in the profit column used for ranking, so the list is in
\* descending order of its 'profit' field, whatever other columns the table
\* has.
C24_ProfitFieldIsRankingValue ==
    FindBestDone =>
        LET F == Get(filtered_data)
            pc == Get(printed.profit_col)
            m == Len(best_optimizations)
        IN  /\ \E pos \in Picks(NRows(F), m) :
                   \A k \in 1..m :
                       LET rec == best_optimizations[k]
                       IN  /\ "profit" \in DOMAIN rec
                           /\ rec["profit"] = CellOf(F, pos[k], pc)
                           /\ \A c \in ColumnSet(F) \ {pc, "profit"} :
                                  c \in DOMAIN rec
                                  /\ rec[c] = CellOf(F, pos[k], c)
            /\ \A k \in 1..(m - 1) :
                   best_optimizations[k]["profit"].v
                       >= best_optimizations[k + 1]["profit"].v

\* ------------------------------------------------------ filtered table
\* the rows of F are rows of T under their index labels, in ascending order
IsRowSubset(F, T) ==
    /\ F.cols = T.cols
    /\ \A k \in 1..NRows(F) :
           /\ F.index[k] + 1 \in 1..NRows(T)
           /\ F.rows[k] = T.rows[F.index[k] + 1]
    /\ \A k \in 1..(NRows(F) - 1) : F.index[k] < F.index[k + 1]

\* C25: whatever tables the session loads and whatever calls it makes,
\* filtered_data is either not computed or a row-subset of the table held in
\* data, and right after a filter call, however it ended, it holds exactly
\* the rows of data that pass the thresholds of that call.
C25_FilteredDataCurrent ==
    \/ IsNone(filtered_data)
    \/ /\ ~IsNone(data)
       /\ IsRowSubset(Get(filtered_data), Get(data))
       /\ last.op = "filter" =>
              /\ last.res = "ok"
              /\ \A i \in 1..NRows(Get(data)) :
                     i \in PassingRows(Get(data), last.a, last.b,
                                       Get(printed.profit_col), printed.dd_col)
                     <=> \E k \in 1..NRows(Get(filtered_data)) :
                             Get(filtered_data).index[k] = i - 1

\* ------------------------------------------------------ columns read
\* the first element of a list of columns, None when the list is empty
FirstOf(cols) == IF cols = << >> THEN None ELSE Some(cols[1])

\* the numbers of column c over the rows of F, and their absolute values
ColumnNumbers(F, c) == {CellOf(F, i, c).v : i \in 1..NRows(F)}
AbsOf(S) == {IF x < 0 THEN -x ELSE x : x \in S}

\* C26: every stage reads the columns the filter tested: on a filtered
\* table, analyze_variables, find_best_optimizations and
\* calculate_advanced_metrics resolve the profit column the filter used, and
\* calculate_advanced_metrics the drawdown column the filter used (or none
\* when the filter used none), so the greatest profit and the greatest
\* drawdown of the metrics are those of the values the filter tested.
C26_StagesReadTheFilterColumns ==
    ~IsNone(filtered_data) =>
        LET F == Get(filtered_data)
        IN  /\ last.op = "analyze" =>
                   FirstOf(ProfitColsAnalyze(F.cols)) = printed.profit_col
            /\ last.op = "find_best" =>
                   FirstOf(ProfitColsBest(F.cols)) = printed.profit_col
            /\ last.op = "metrics" =>
                   /\ FirstOf(ProfitColsMetrics(F.cols)) = printed.profit_col
                   /\ FirstOf(DdColsMetrics(F.cols)) = printed.dd_col
            /\ (MetricsDone /\ NRows(F) > 0) =>
                   /\ advanced_metrics.val.max_profit =
                          Int2F(SetMax(ColumnNumbers(F, Get(printed.profit_col))))
                   /\ ~IsNone(printed.dd_col) =>
                          advanced_metrics.val.max_drawdown =
                              Int2F(SetMax(AbsOf(ColumnNumbers(F, Get(printed.dd_col)))))

\* ------------------------------------------------------ partition
\* the number of places column c has in the category lists
PlacesIn(categorized, c) ==
    Cardinality({<<g, k>> \in FiveCategories \X (1..MaxCols + 1) :
                    /\ k <= Len(categorized[g])
                    /\ categorized[g][k] = c})

\* C27: analyze_variables and categorize_variables split the columns into
\* variables and results the same way: when categorize_variables is called
\* on the table analyze_variables has just analysed, every column with a
\* VariableStat entry is in exactly one category list, and every
\* categorized column with a cleaned row has a VariableStat entry.
C27_SamePartition ==
    [][(AnalyzeDone /\ CategorizeVariables) =>
          LET F == Get(filtered_data)
              pc == Get(printed.profit_col)
          IN  \A c \in ColumnSet(F) :
                  /\ c \in DOMAIN variable_stats =>
                         PlacesIn(Get(returned'), c) = 1
                  /\ (PlacesIn(Get(returned'), c) >= 1
                         /\ CleanRows(F, c, pc) # {}) =>
                         c \in DOMAIN variable_stats]_vars

=============================================================================
